---- MODULE Spec2Model ----
(***************************************************************************)
(* Model of loja_de_musica.py: stores (Loja), employees (Funcionario) and  *)
(* instruments (Instrumento), the list bookkeeping between them and the    *)
(* two counting queries.  Every method is an operator over the object      *)
(* heap, computed statement by statement as the Python code computes it;   *)
(* the actions apply the operators, either from a caller that imported the *)
(* module or from main().                                                  *)
(***************************************************************************)
EXTENDS Naturals, Sequences, FiniteSets

\* ------------------------------------------------------------------ objects

\* Bound on the number of references (to a Funcionario or an Instrumento) that
\* the lists of all stores hold together.
MaxReferencias == 3

Lojas == {"loja1", "loja2", "loja3"}

Funcionarios == {"func1", "func2", "func3"}

Instrumentos == {"baixo1", "guitarra1", "violao1"}

\* The stores a caller that imported the module works with.
LojasDoChamador == {"loja1", "loja2"}

\* Python's None.
None == "None"

\* The concrete class of each instrument object.
Classe(instrumento) ==
    CASE instrumento = "baixo1" -> "Baixo"
      [] instrumento = "guitarra1" -> "Guitarra"
      [] instrumento = "violao1" -> "Violao"

\* The cargo each Funcionario of main() is constructed with.
CargoMain ==
    [f \in Funcionarios |->
        CASE f = "func1" -> "Vendedor"
          [] f = "func2" -> "Gerente"
          [] f = "func3" -> "Caixa"]

\* The cargos of a caller's employees: two share a role, one has another.
CargoDoChamador ==
    [f \in Funcionarios |->
        CASE f = "func1" -> "Vendedor"
          [] f = "func2" -> "Gerente"
          [] f = "func3" -> "Vendedor"]

VARIABLES
    funcionarios,        \* Loja.funcionarios: store -> list of employees
    estoque,             \* Loja.estoque: store -> list of instruments
    loja_mais_proxima,   \* Loja.loja_mais_proxima: store -> store or None
    loja_atual,          \* Funcionario.loja_atual: employee -> store or None
    cargo,               \* Funcionario.cargo: employee -> role
    name,                \* __name__: "__main__" runs main(), else imported
    pc,                  \* position of main() in its script
    instrumentos_loja1,  \* main()'s local of that name
    funcionarios_loja1,  \* main()'s local of that name
    last,                \* the call that was made last
    ret                  \* what that call returned or raised

vars == <<funcionarios, estoque, loja_mais_proxima, loja_atual, cargo, name, pc,
          instrumentos_loja1, funcionarios_loja1, last, ret>>

\* ------------------------------------------------------------ Python lists

Range(seq) == {seq[i] : i \in 1..Len(seq)}

\* Number of occurrences of x in seq (list.count).
Count(seq, x) == Cardinality({i \in 1..Len(seq) : seq[i] = x})

\* Index of the first occurrence of x in seq, 0 when absent.
IndexOf(seq, x) ==
    IF x \in Range(seq)
    THEN CHOOSE i \in 1..Len(seq) : seq[i] = x /\ \A j \in 1..(i - 1) : seq[j] # x
    ELSE 0

\* list.remove(x) on a list that holds x: the first occurrence is deleted.
list_remove(seq, x) ==
    LET i == IndexOf(seq, x)
    IN  SubSeq(seq, 1, i - 1) \o SubSeq(seq, i + 1, Len(seq))

\* ------------------------------------------------------------ Python dicts
\* A dict is the sequence of its <<key, value>> items in insertion order.

Keys(d) == [i \in 1..Len(d) |-> d[i][1]]

Values(d) == [i \in 1..Len(d) |-> d[i][2]]

HasKey(d, k) == \E i \in 1..Len(d) : d[i][1] = k

Get(d, k) == d[CHOOSE i \in 1..Len(d) : d[i][1] = k][2]

\* d[k] += 1 for a key that is present.
Increment(d, k) == [i \in 1..Len(d) |-> IF d[i][1] = k THEN <<k, d[i][2] + 1>> ELSE d[i]]

\* d[k] = v for a key that is absent.
Insert(d, k, v) == Append(d, <<k, v>>)

\* ---------------------------------------------------------------- methods
\* The heap a method works on, and the result of a call: the heap after it,
\* the exception it raised (None when it returned) and the value returned.

Heap == [funcionarios |-> funcionarios, estoque |-> estoque,
         loja_mais_proxima |-> loja_mais_proxima, loja_atual |-> loja_atual]

Return(h, val) == [heap |-> h, exc |-> None, val |-> val]

Raise(h, exc) == [heap |-> h, exc |-> exc, val |-> None]

\* adicionar_funcionario as it would be with a membership guard on the append.
adicionar_funcionario_com_guarda(h, self, funcionario) ==
    LET h1 == IF funcionario \in Range(h.funcionarios[self])
              THEN h
              ELSE [h EXCEPT !.funcionarios[self] = Append(@, funcionario)]
        h2 == [h1 EXCEPT !.loja_atual[funcionario] = self]
    IN  [heap |-> h2, exc |-> None, val |-> None]

\* Loja.adicionar_funcionario
adicionar_funcionario(h, self, funcionario) ==
    LET h1 == [h EXCEPT !.funcionarios[self] = Append(@, funcionario)]
        h2 == [h1 EXCEPT !.loja_atual[funcionario] = self]
    IN  Return(h2, None)

\* remover_funcionario with its two statements swapped: loja_atual is cleared
\* before the list removal that may raise.
remover_funcionario_limpa_antes(h, self, funcionario) ==
    LET h1 == [h EXCEPT !.loja_atual[funcionario] = None]
    IN  IF funcionario \notin Range(h.funcionarios[self])
        THEN [heap |-> h1, exc |-> "ValueError", val |-> None]
        ELSE [heap |-> [h1 EXCEPT !.funcionarios[self] = list_remove(@, funcionario)],
              exc |-> None, val |-> None]

\* remover_funcionario without its second statement: loja_atual is kept.
remover_funcionario_sem_limpar(h, self, funcionario) ==
    IF funcionario \notin Range(h.funcionarios[self])
    THEN [heap |-> h, exc |-> "ValueError", val |-> None]
    ELSE [heap |-> [h EXCEPT !.funcionarios[self] = list_remove(@, funcionario)],
          exc |-> None, val |-> None]

\* Loja.remover_funcionario
remover_funcionario(h, self, funcionario) ==
    IF funcionario \notin Range(h.funcionarios[self])
    THEN Raise(h, "ValueError")
    ELSE LET h1 == [h EXCEPT !.funcionarios[self] = list_remove(@, funcionario)]
             h2 == [h1 EXCEPT !.loja_atual[funcionario] = None]
         IN  Return(h2, None)

\* Funcionario.mudar_loja
mudar_loja(h, self, nova_loja) ==
    LET r1 == IF h.loja_atual[self] # None
              THEN remover_funcionario(h, h.loja_atual[self], self)
              ELSE Return(h, None)
    IN  IF r1.exc # None
        THEN r1
        ELSE LET r2 == adicionar_funcionario(r1.heap, nova_loja, self)
                 h3 == [r2.heap EXCEPT !.loja_atual[self] = nova_loja]
             IN  Return(h3, None)

\* Loja.adicionar_instrumento
adicionar_instrumento(h, self, instrumento) ==
    Return([h EXCEPT !.estoque[self] = Append(@, instrumento)], None)

\* remover_instrumento as estoque.pop(): the last item goes, whatever it is.
remover_instrumento_pop(h, self, instrumento) ==
    IF h.estoque[self] = <<>>
    THEN [heap |-> h, exc |-> "IndexError", val |-> None]
    ELSE [heap |-> [h EXCEPT !.estoque[self] = SubSeq(@, 1, Len(@) - 1)],
          exc |-> None, val |-> None]

\* Loja.remover_instrumento
remover_instrumento(h, self, instrumento) ==
    IF instrumento \notin Range(h.estoque[self])
    THEN Raise(h, "ValueError")
    ELSE Return([h EXCEPT !.estoque[self] = list_remove(@, instrumento)], None)

\* The loop body without its last elif: a Violao is not counted.
ContaInstrumento_sem_violao(d, instrumento) ==
    IF Classe(instrumento) = "Baixo" THEN Increment(d, "Baixo")
    ELSE IF Classe(instrumento) = "Guitarra" THEN Increment(d, "Guitarra")
    ELSE d

\* The loop body of consultar_instrumentos for one instrument.
ContaInstrumento(d, instrumento) ==
    IF Classe(instrumento) = "Baixo" THEN Increment(d, "Baixo")
    ELSE IF Classe(instrumento) = "Guitarra" THEN Increment(d, "Guitarra")
    ELSE IF Classe(instrumento) = "Violao" THEN Increment(d, "Violão")
    ELSE d

RECURSIVE LoopInstrumentos(_, _, _)
LoopInstrumentos(d, lista, i) ==
    IF i > Len(lista) THEN d
    ELSE LoopInstrumentos(ContaInstrumento(d, lista[i]), lista, i + 1)

\* Loja.consultar_instrumentos
consultar_instrumentos(h, self) ==
    LET instrumentos_por_tipo == <<<<"Baixo", 0>>, <<"Guitarra", 0>>, <<"Violão", 0>>>>
    IN  Return(h, LoopInstrumentos(instrumentos_por_tipo, h.estoque[self], 1))

\* The loop body with "= 1" in both branches: a role seen again counts once.
ContaCargo_sem_incremento(d, c) ==
    IF HasKey(d, c)
    THEN [i \in 1..Len(d) |-> IF d[i][1] = c THEN <<c, 1>> ELSE d[i]]
    ELSE Insert(d, c, 1)

\* The loop body of consultar_funcionarios_por_cargo for one employee.
ContaCargo(d, c) ==
    IF HasKey(d, c) THEN Increment(d, c) ELSE Insert(d, c, 1)

RECURSIVE LoopFuncionarios(_, _, _, _)
LoopFuncionarios(d, lista, cargos, i) ==
    IF i > Len(lista) THEN d
    ELSE LoopFuncionarios(ContaCargo(d, cargos[lista[i]]), lista, cargos, i + 1)

\* Loja.consultar_funcionarios_por_cargo
consultar_funcionarios_por_cargo(h, cargos, self) ==
    LET funcionarios_por_cargo == <<>>
    IN  Return(h, LoopFuncionarios(funcionarios_por_cargo, h.funcionarios[self], cargos, 1))

\* ------------------------------------------------------------------ calls

RECURSIVE SumLen(_, _)
SumLen(f, S) ==
    IF S = {} THEN 0
    ELSE LET s == CHOOSE x \in S : TRUE IN Len(f[s]) + SumLen(f, S \ {s})

Referencias == SumLen(funcionarios, Lojas) + SumLen(estoque, Lojas)

\* The heap after a call, with the call and its outcome on record.
Commit(op, self, arg, r) ==
    /\ funcionarios' = r.heap.funcionarios
    /\ estoque' = r.heap.estoque
    /\ loja_mais_proxima' = r.heap.loja_mais_proxima
    /\ loja_atual' = r.heap.loja_atual
    /\ last' = [op |-> op, self |-> self, arg |-> arg]
    /\ ret' = [exc |-> r.exc, val |-> r.val]

Imported == name # "__main__"

Init ==
    /\ funcionarios = [l \in Lojas |-> <<>>]
    /\ estoque = [l \in Lojas |-> <<>>]
    /\ loja_mais_proxima = [l \in Lojas |-> None]
    /\ loja_atual = [f \in Funcionarios |-> None]
    /\ name \in {"__main__", "loja_de_musica"}
    /\ cargo \in IF name = "__main__" THEN {CargoMain} ELSE {CargoDoChamador}
    /\ pc = 1
    /\ instrumentos_loja1 = None
    /\ funcionarios_loja1 = None
    /\ last = [op |-> None, self |-> None, arg |-> None]
    /\ ret = [exc |-> None, val |-> None]

AdicionarFuncionario(self, funcionario) ==
    /\ Imported
    /\ Referencias < MaxReferencias
    /\ Commit("adicionar_funcionario", self, funcionario,
              adicionar_funcionario(Heap, self, funcionario))
    /\ UNCHANGED <<cargo, name, pc, instrumentos_loja1, funcionarios_loja1>>

RemoverFuncionario(self, funcionario) ==
    /\ Imported
    /\ Commit("remover_funcionario", self, funcionario,
              remover_funcionario(Heap, self, funcionario))
    /\ UNCHANGED <<cargo, name, pc, instrumentos_loja1, funcionarios_loja1>>

MudarLoja(self, nova_loja) ==
    /\ Imported
    /\ \/ loja_atual[self] # None
       \/ Referencias < MaxReferencias
    /\ Commit("mudar_loja", self, nova_loja, mudar_loja(Heap, self, nova_loja))
    /\ UNCHANGED <<cargo, name, pc, instrumentos_loja1, funcionarios_loja1>>

AdicionarInstrumento(self, instrumento) ==
    /\ Imported
    /\ Referencias < MaxReferencias
    /\ Commit("adicionar_instrumento", self, instrumento,
              adicionar_instrumento(Heap, self, instrumento))
    /\ UNCHANGED <<cargo, name, pc, instrumentos_loja1, funcionarios_loja1>>

RemoverInstrumento(self, instrumento) ==
    /\ Imported
    /\ Commit("remover_instrumento", self, instrumento,
              remover_instrumento(Heap, self, instrumento))
    /\ UNCHANGED <<cargo, name, pc, instrumentos_loja1, funcionarios_loja1>>

ConsultarInstrumentos(self) ==
    /\ Imported
    /\ Commit("consultar_instrumentos", self, None, consultar_instrumentos(Heap, self))
    /\ UNCHANGED <<cargo, name, pc, instrumentos_loja1, funcionarios_loja1>>

ConsultarFuncionariosPorCargo(self) ==
    /\ Imported
    /\ Commit("consultar_funcionarios_por_cargo", self, None,
              consultar_funcionarios_por_cargo(Heap, cargo, self))
    /\ UNCHANGED <<cargo, name, pc, instrumentos_loja1, funcionarios_loja1>>

\* The calls of main(), in program order.
MainScript == <<
    [op |-> "loja_mais_proxima", self |-> "loja1", arg |-> "loja2"],
    [op |-> "loja_mais_proxima", self |-> "loja2", arg |-> "loja3"],
    [op |-> "loja_mais_proxima", self |-> "loja3", arg |-> "loja1"],
    [op |-> "adicionar_funcionario", self |-> "loja1", arg |-> "func1"],
    [op |-> "adicionar_funcionario", self |-> "loja1", arg |-> "func2"],
    [op |-> "adicionar_funcionario", self |-> "loja2", arg |-> "func3"],
    [op |-> "adicionar_instrumento", self |-> "loja1", arg |-> "baixo1"],
    [op |-> "adicionar_instrumento", self |-> "loja1", arg |-> "guitarra1"],
    [op |-> "adicionar_instrumento", self |-> "loja2", arg |-> "violao1"],
    [op |-> "consultar_instrumentos", self |-> "loja1", arg |-> None],
    [op |-> "consultar_funcionarios_por_cargo", self |-> "loja1", arg |-> None],
    [op |-> "remover_funcionario", self |-> "loja1", arg |-> "func2"],
    [op |-> "adicionar_funcionario", self |-> "loja2", arg |-> "func2"],
    [op |-> "remover_instrumento", self |-> "loja1", arg |-> "baixo1"],
    [op |-> "consultar_instrumentos", self |-> "loja1", arg |-> None],
    [op |-> "consultar_funcionarios_por_cargo", self |-> "loja1", arg |-> None] >>

\* One statement of main(): the call c made on heap h.
Call(h, cargos, c) ==
    CASE c.op = "loja_mais_proxima" ->
            Return([h EXCEPT !.loja_mais_proxima[c.self] = c.arg], None)
      [] c.op = "adicionar_funcionario" -> adicionar_funcionario(h, c.self, c.arg)
      [] c.op = "remover_funcionario" -> remover_funcionario(h, c.self, c.arg)
      [] c.op = "adicionar_instrumento" -> adicionar_instrumento(h, c.self, c.arg)
      [] c.op = "remover_instrumento" -> remover_instrumento(h, c.self, c.arg)
      [] c.op = "consultar_instrumentos" -> consultar_instrumentos(h, c.self)
      [] c.op = "consultar_funcionarios_por_cargo" ->
            consultar_funcionarios_por_cargo(h, cargos, c.self)

\* main() runs its next statement; an exception that nobody catches ends it.
Main ==
    /\ name = "__main__"
    /\ pc \in 1..Len(MainScript)
    /\ ret.exc = None
    /\ LET c == MainScript[pc]
           r == Call(Heap, cargo, c)
       IN  /\ Commit(c.op, c.self, c.arg, r)
           /\ pc' = IF r.exc = None THEN pc + 1 ELSE pc
           /\ instrumentos_loja1' =
                  IF c.op = "consultar_instrumentos" /\ r.exc = None
                  THEN r.val ELSE instrumentos_loja1
           /\ funcionarios_loja1' =
                  IF c.op = "consultar_funcionarios_por_cargo" /\ r.exc = None
                  THEN r.val ELSE funcionarios_loja1
    /\ UNCHANGED <<cargo, name>>

\* main() has run to its end.
MainDone == name = "__main__" /\ pc = Len(MainScript) + 1

Next ==
    \/ \E l \in LojasDoChamador, f \in Funcionarios : AdicionarFuncionario(l, f)
    \/ \E l \in LojasDoChamador, f \in Funcionarios : RemoverFuncionario(l, f)
    \/ \E f \in Funcionarios, l \in LojasDoChamador : MudarLoja(f, l)
    \/ \E l \in LojasDoChamador, i \in Instrumentos : AdicionarInstrumento(l, i)
    \/ \E l \in LojasDoChamador, i \in Instrumentos : RemoverInstrumento(l, i)
    \/ \E l \in LojasDoChamador : ConsultarInstrumentos(l)
    \/ \E l \in LojasDoChamador : ConsultarFuncionariosPorCargo(l)
    \/ Main

Spec == Init /\ [][Next]_vars

\* ----------------------------------------------------------------- claims

\* The stores whose funcionarios list holds f.
LojasCom(f) == {l \in Lojas : f \in Range(funcionarios[l])}

RECURSIVE SumSeq(_, _)
SumSeq(seq, i) == IF i > Len(seq) THEN 0 ELSE seq[i] + SumSeq(seq, i + 1)

\* The label consultar_instrumentos reports a class under.
Rotulo(classe) == IF classe = "Violao" THEN "Violão" ELSE classe

\* How many items of the list are instances of the class.
DaClasse(lista, classe) == Cardinality({i \in 1..Len(lista) : Classe(lista[i]) = classe})

\* The positions of a sequence whose item occurs at no earlier position, and
\* the k-th of them.
Primeiras(seq) == {i \in 1..Len(seq) : \A j \in 1..(i - 1) : seq[j] # seq[i]}

Primeira(seq, k) ==
    CHOOSE i \in Primeiras(seq) : Cardinality({j \in Primeiras(seq) : j < i}) = k - 1

\* The cargos of the employees of a store, in list order.
CargosDe(l) == [i \in 1..Len(funcionarios[l]) |-> cargo[funcionarios[l][i]]]

\* C1: in every reachable state each employee's loja_atual is exactly the
\* store whose funcionarios list holds the employee, and None when no store's
\* list holds the employee.
C1_LojaAtualIgualALojaQueContem ==
    \A f \in Funcionarios :
        IF loja_atual[f] = None
        THEN LojasCom(f) = {}
        ELSE LojasCom(f) = {loja_atual[f]}

\* C2: in every reachable state an employee is in at most one store's
\* funcionarios list, at most once in it, and that store is the employee's
\* loja_atual.
C2_NoMaximoUmaLojaUmaVez ==
    \A f \in Funcionarios :
        /\ Cardinality(LojasCom(f)) <= 1
        /\ \A l \in Lojas : Count(funcionarios[l], f) <= 1
        /\ \A l \in LojasCom(f) : loja_atual[f] = l

\* C3: a mudar_loja(nova_loja) call on an employee leaves the heap that
\* remover_funcionario on the old store followed by adicionar_funcionario on
\* the new one leaves, with loja_atual at nova_loja and the employee in the
\* list of exactly one store, once.
C3_MudarLojaDeixaEmUmaLoja ==
    [][last'.op = "mudar_loja" =>
        LET f == last'.self
            nova_loja == last'.arg
            velha == loja_atual[f]
            h1 == IF velha = None THEN Heap ELSE remover_funcionario(Heap, velha, f).heap
        IN  /\ ret'.exc = None
            /\ Heap' = adicionar_funcionario(h1, nova_loja, f).heap
            /\ loja_atual'[f] = nova_loja
            /\ {l \in Lojas : f \in Range(funcionarios'[l])} = {nova_loja}
            /\ Count(funcionarios'[nova_loja], f) = 1]_vars

\* C4: remover_funcionario on a store whose list does not hold the employee,
\* and remover_instrumento on a store whose estoque does not hold the
\* instrument, raise ValueError (the list's "not found") and leave every
\* funcionarios list, every estoque and every loja_atual as they were.
C4_RemocaoDeAusenteNaoAltera ==
    [][(\/ /\ last'.op = "remover_funcionario"
           /\ last'.arg \notin Range(funcionarios[last'.self])
        \/ /\ last'.op = "remover_instrumento"
           /\ last'.arg \notin Range(estoque[last'.self]))
       => /\ ret'.exc = "ValueError"
          /\ funcionarios' = funcionarios
          /\ estoque' = estoque
          /\ loja_atual' = loja_atual]_vars

\* C4 witness: a removal of an employee from a store that does not hold the
\* employee has raised, while another store holds the employee and some
\* store has stock.
C4_Witness ==
    /\ last.op = "remover_funcionario"
    /\ ret.exc = "ValueError"
    /\ loja_atual[last.arg] \notin {None, last.self}
    /\ \E l \in Lojas : estoque[l] # <<>>

\* C5: from any state, the employee already in the store or in another one
\* included, adicionar_funcionario returns with loja_atual at the store, the
\* employee appended at the end of the store's list (one occurrence more
\* than before) and no other store's list changed.
C5_AdicionarAcrescentaUmaOcorrencia ==
    [][last'.op = "adicionar_funcionario" =>
        LET l == last'.self
            f == last'.arg
        IN  /\ ret'.exc = None
            /\ loja_atual'[f] = l
            /\ funcionarios'[l] = Append(funcionarios[l], f)
            /\ Count(funcionarios'[l], f) = Count(funcionarios[l], f) + 1
            /\ \A m \in Lojas \ {l} : funcionarios'[m] = funcionarios[m]]_vars

\* C5 witness: an employee was added to a store that already held the
\* employee, while another store holds the employee too.
C5_Witness ==
    /\ last.op = "adicionar_funcionario"
    /\ Count(funcionarios[last.self], last.arg) = 2
    /\ LojasCom(last.arg) # {last.self}

\* C6: after remover_funcionario on a store that held the employee,
\* loja_atual is None and the store's list no longer holds the employee.
C6_RemoverTiraDaLoja ==
    (last.op = "remover_funcionario" /\ ret.exc = None) =>
        /\ loja_atual[last.arg] = None
        /\ last.arg \notin Range(funcionarios[last.self])

\* C7: consultar_instrumentos returns the three keys Baixo, Guitarra, Violão
\* in that order, each with the number of items of that class in the
\* store's estoque, the three summing to the size of the estoque; the call
\* changes nothing on the heap.
C7_ConsultarInstrumentosTresChaves ==
    [][last'.op = "consultar_instrumentos" =>
        LET d == ret'.val
            lista == estoque[last'.self]
        IN  /\ ret'.exc = None
            /\ Heap' = Heap
            /\ cargo' = cargo
            /\ Keys(d) = <<"Baixo", "Guitarra", "Violão">>
            /\ \A c \in {"Baixo", "Guitarra", "Violao"} :
                   Get(d, Rotulo(c)) = DaClasse(lista, c)
            /\ SumSeq(Values(d), 1) = Len(lista)]_vars

\* C7 witness: a query on a store with stock has returned a zero count next
\* to a non-zero one.
C7_Witness ==
    /\ last.op = "consultar_instrumentos"
    /\ estoque[last.self] # <<>>
    /\ \E i \in 1..Len(ret.val) : ret.val[i][2] = 0
    /\ Get(ret.val, "Violão") > 0

\* C8: consultar_funcionarios_por_cargo returns as keys the distinct cargos
\* of the employees in the store's list, in first-encounter order, every
\* value at least 1 and equal to the number of list entries with that cargo,
\* the values summing to the length of the list.
C8_ConsultarFuncionariosPorCargo ==
    last.op = "consultar_funcionarios_por_cargo" =>
        LET d == ret.val
            cargos == CargosDe(last.self)
        IN  /\ ret.exc = None
            /\ Len(d) = Cardinality(Primeiras(cargos))
            /\ \A k \in 1..Len(d) :
                   /\ d[k][1] = cargos[Primeira(cargos, k)]
                   /\ d[k][2] >= 1
                   /\ d[k][2] = Count(cargos, d[k][1])
            /\ SumSeq(Values(d), 1) = Len(cargos)

\* C8 witness: a query on a store whose list holds two employees of one
\* cargo and one of another has returned.
C8_Witness ==
    /\ last.op = "consultar_funcionarios_por_cargo"
    /\ Len(ret.val) = 2
    /\ \E k \in 1..Len(ret.val) : ret.val[k][2] = 2
    /\ Cardinality(Range(funcionarios[last.self])) >= 2

\* C9: in main(), no statement raises; the first queries on loja1 give
\* {Baixo: 1, Guitarra: 1, Violão: 0} and {Vendedor: 1, Gerente: 1}; after
\* func2 went to loja2 and baixo1 left loja1 they give
\* {Baixo: 0, Guitarra: 1, Violão: 0} and {Vendedor: 1}, and func2's
\* loja_atual is loja2.
C9_Main ==
    name = "__main__" =>
        /\ ret.exc = None
        /\ pc \in 11..15 =>
               instrumentos_loja1 = <<<<"Baixo", 1>>, <<"Guitarra", 1>>, <<"Violão", 0>>>>
        /\ pc \in 12..16 =>
               funcionarios_loja1 = <<<<"Vendedor", 1>>, <<"Gerente", 1>>>>
        /\ pc \in 14..17 => loja_atual["func2"] = "loja2"
        /\ pc \in 16..17 =>
               instrumentos_loja1 = <<<<"Baixo", 0>>, <<"Guitarra", 1>>, <<"Violão", 0>>>>
        /\ MainDone =>
               funcionarios_loja1 = <<<<"Vendedor", 1>>>>

\* C9 witness: main() has run to its end.
C9_Witness == MainDone /\ ret.exc = None

\* C10: in every reachable state an employee whose loja_atual is a store is
\* in that store's funcionarios list, and no mudar_loja call has raised.
C10_LojaAtualContemEMudarNaoFalha ==
    /\ \A f \in Funcionarios :
           loja_atual[f] # None => f \in Range(funcionarios[loja_atual[f]])
    /\ last.op = "mudar_loja" => ret.exc = None

\* C10 witness: mudar_loja has returned for an employee that two stores hold.
C10_Witness ==
    /\ last.op = "mudar_loja"
    /\ ret.exc = None
    /\ Cardinality(LojasCom(last.self)) = 2

====
